---------------------------- MODULE Spec2Model ----------------------------
(***************************************************************************)
(* The connection registry of sveltekit-ws (class WebSocketManager) as a   *)
(* state machine.  The registry is a JavaScript Map from connection id to  *)
(* connection record; the transport channels (ws objects) are owned by the *)
(* environment, which decides, at every call, the readyState the manager   *)
(* reads from a channel and whether a send() or a close() on it throws.    *)
(***************************************************************************)
EXTENDS Integers, Sequences, FiniteSets, TLC

(***************************************************************************)
(* Bounds of the model.                                                    *)
(***************************************************************************)
\* Number of addConnection calls explored (also the size of the id universe).
MaxAdds == 2
\* Number of distinct transport channels (ws objects) the callers hold.
NumChannels == 2
\* Largest clock value (Date.now()) and largest caller-supplied timestamp.
MaxClock == 1

(***************************************************************************)
(* Values.                                                                 *)
(***************************************************************************)
\* WebSocket.OPEN, the literal 1 of `readyState !== 1` / `readyState === 1`.
OPEN == 1
\* CONNECTING, OPEN, CLOSING, CLOSED
ReadyStates == 0..3
\* The UUID strings randomUUID() can return.
Ids == 1..MaxAdds
Channels == 1..NumChannels
\* JavaScript's undefined (an omitted optional argument or a Map miss).
Undefined == "undefined"
\* metadata?: Record<string, any> -- omitted, or some bag.
Metadatas == {Undefined, "meta"}
Types == {"x", "y"}
Datas == {1}
Timestamps == 0..MaxClock
\* WSMessage: {type, data, timestamp?}
Messages ==
    [type : Types, data : Datas] \cup
    [type : Types, data : Datas, timestamp : Timestamps]
\* The one message of the callers and clients that send a single kind.
Notice == [type |-> "x", data |-> 1]

VARIABLES
    connections,  \* this.connections: the Map, as its entries in insertion order
    issued,       \* every id randomUUID() has returned so far
    now,          \* the clock read by Date.now()
    call,         \* the call in progress: method, arguments, readyStates read, result
    writes,       \* the ws.send() calls it made, in order
    closes,       \* the ws.close() calls it made, in order
    lastStamp,    \* timestamp of the last frame an earlier send() stamped itself (-1: none)
    adds,         \* addConnection calls since the registry was last new or cleared
    removals,     \* removeConnection/disconnect calls that returned true since then
    snapshot,     \* the Map a caller kept from getConnections(), if it kept one
    sockets,      \* per ws object: where its 'connection' callback stands, its closure
    heartbeatTimers, \* the ids the adapter's heartbeatTimers Map holds a timer for
    event,        \* the ws or timer event whose callback is running
    handled,      \* the application handlers that callback invoked, in order
    wss,          \* the adapter's WebSocketServer: "running", or "closed" by the teardown
    order,        \* per ws object: the frames its 'message' listener was given, the
                  \* frames an onMessage invocation began for, the invocations pending
    store,        \* the client store's value: connected, identified, messages, error, reconnecting
    client,       \* the client store's closure: ws, reconnectTimer, reconnectCount
    browser,      \* the page's WebSocket objects and pending timeouts
    usage         \* what the page has asked of the store, what the store has tried since

vars == <<connections, issued, now, call, writes, closes, lastStamp, adds, removals,
          snapshot, sockets, heartbeatTimers, event, handled, wss, order,
          store, client, browser, usage>>

\* The browser's side: the server has no access to it.
clientSide == <<store, client, browser, usage>>

\* What the manager's methods have no access to.
others == <<snapshot, sockets, heartbeatTimers, event, handled, wss, order, clientSide>>

\* What the transport adapter has no access to.
callers == <<now, call, writes, lastStamp, snapshot, clientSide>>

(***************************************************************************)
(* JavaScript Map, as a sequence of [key, value] entries in insertion      *)
(* order.                                                                  *)
(***************************************************************************)
MapKeys(m) == {m[i].key : i \in DOMAIN m}

MapHas(m, k) == k \in MapKeys(m)

\* Map.prototype.get for a key that is present.
MapGet(m, k) == m[CHOOSE i \in DOMAIN m : m[i].key = k].value

\* Map.prototype.set: overwrite in place, or append a new entry.
MapSet(m, k, v) ==
    IF MapHas(m, k)
    THEN [i \in DOMAIN m |-> IF m[i].key = k THEN [key |-> k, value |-> v] ELSE m[i]]
    ELSE Append(m, [key |-> k, value |-> v])

\* Map.prototype.delete (the entries left; the boolean result is MapHas before).
MapDelete(m, k) == SelectSeq(m, LAMBDA e : e.key /= k)

(***************************************************************************)
(* The wire frame.                                                         *)
(***************************************************************************)
\* A variant that stamps a missing timestamp with 0 instead of the clock.
TimestampOr_Zero(message, clock) ==
    IF "timestamp" \in DOMAIN message /\ message.timestamp /= 0
    THEN message.timestamp
    ELSE 0

\* message.timestamp || Date.now(): undefined and 0 are falsy.
TimestampOr(message, clock) ==
    IF "timestamp" \in DOMAIN message /\ message.timestamp /= 0
    THEN message.timestamp
    ELSE clock

\* { ...message, timestamp: t }
WithTimestamp(message, t) ==
    [k \in (DOMAIN message) \cup {"timestamp"} |->
        IF k = "timestamp" THEN t ELSE message[k]]

\* Own keys of the spread object in property order: message's keys, then timestamp.
KeyOrder == <<"type", "data", "timestamp">>

\* JSON.stringify of a flat object: its key/value pairs in property order.
JSONstringify(obj) ==
    LET present == SelectSeq(KeyOrder, LAMBDA k : k \in DOMAIN obj)
    IN  [i \in DOMAIN present |-> <<present[i], obj[present[i]]>>]

\* What a receiver reads back from a frame: JSON.parse(payload)[k].
FrameHas(payload, k) == \E i \in DOMAIN payload : payload[i][1] = k
FrameField(payload, k) == payload[CHOOSE i \in DOMAIN payload : payload[i][1] = k][2]

(***************************************************************************)
(* WebSocketManager's methods.  Each is the outcome of one call: the Map   *)
(* afterwards, the returned value, whether an exception reached the        *)
(* caller, and the send()/close() calls made on channels.  `throws` and    *)
(* `failing` are the environment's choice of which channel calls throw.    *)
(***************************************************************************)
Outcome(m, ret, raised, ws, cs) ==
    [connections |-> m, ret |-> ret, raised |-> raised, writes |-> ws, closes |-> cs]

\* crypto.randomUUID(): the ids it can return next.  A random 122-bit id is
\* taken as never repeating; the manager only compares ids for equality, so
\* the k-th id generated is named k.
randomUUID == {Cardinality(issued) + 1}

size(m) == Len(m)

\* Variants of addConnection() with one plausible slip each.
\* ... an id counted from the registry's size instead of a random UUID
addConnection_IdFromSize(m, ws, metadata, id) ==
    LET connection == [ws |-> ws, id |-> size(m) + 1, metadata |-> metadata]
    IN  Outcome(MapSet(m, connection.id, connection), connection, FALSE, <<>>, <<>>)

\* ... a record built without the metadata argument
addConnection_DropsMetadata(m, ws, metadata, id) ==
    LET connection == [ws |-> ws, id |-> id, metadata |-> Undefined]
    IN  Outcome(MapSet(m, id, connection), connection, FALSE, <<>>, <<>>)

addConnection(m, ws, metadata, id) ==
    LET connection == [ws |-> ws, id |-> id, metadata |-> metadata]
    IN  Outcome(MapSet(m, id, connection), connection, FALSE, <<>>, <<>>)

\* A variant of getConnections() that hands out this.connections itself.
getConnections_SameMap(m) ==
    Outcome(m, [shared |-> TRUE, entries |-> m], FALSE, <<>>, <<>>)

\* new Map(this.connections): a Map of its own holding the entries of the
\* registry at the time of the call (`shared`: it is the registry's own Map).
getConnections(m) ==
    Outcome(m, [shared |-> FALSE, entries |-> m], FALSE, <<>>, <<>>)

\* The result is a set: empty for undefined, else the one record.
getConnection(m, id) == IF MapHas(m, id) THEN {MapGet(m, id)} ELSE {}

\* Variants of send() with one plausible slip each.
\* ... JSON.stringify({ timestamp: ... }) without the spread of message
send_DropsMessage(m, rs, id, message, clock, throws) ==
    IF ~MapHas(m, id) \/ rs[MapGet(m, id).ws] /= OPEN
    THEN Outcome(m, FALSE, FALSE, <<>>, <<>>)
    ELSE LET payload == JSONstringify([timestamp |-> TimestampOr(message, clock)])
             attempt == [id |-> id, ws |-> MapGet(m, id).ws, payload |-> payload,
                         threw |-> throws]
         IN  Outcome(m, ~throws, FALSE, <<attempt>>, <<>>)

\* ... readyState === 3 (CLOSED) as the only state that is refused
send_OnlyRejectsClosed(m, rs, id, message, clock, throws) ==
    IF ~MapHas(m, id) \/ rs[MapGet(m, id).ws] = 3
    THEN Outcome(m, FALSE, FALSE, <<>>, <<>>)
    ELSE LET payload == JSONstringify(WithTimestamp(message, TimestampOr(message, clock)))
             attempt == [id |-> id, ws |-> MapGet(m, id).ws, payload |-> payload,
                         threw |-> throws]
         IN  Outcome(m, ~throws, FALSE, <<attempt>>, <<>>)

\* ... no `!connection` test: connection.ws of undefined throws a TypeError
send_NoLookupCheck(m, rs, id, message, clock, throws) ==
    IF ~MapHas(m, id)
    THEN Outcome(m, Undefined, TRUE, <<>>, <<>>)
    ELSE IF rs[MapGet(m, id).ws] /= OPEN
    THEN Outcome(m, FALSE, FALSE, <<>>, <<>>)
    ELSE LET payload == JSONstringify(WithTimestamp(message, TimestampOr(message, clock)))
             attempt == [id |-> id, ws |-> MapGet(m, id).ws, payload |-> payload,
                         threw |-> throws]
         IN  Outcome(m, ~throws, FALSE, <<attempt>>, <<>>)

\* ... a catch block that also drops the connection it could not write to
send_RemovesOnFailure(m, rs, id, message, clock, throws) ==
    IF ~MapHas(m, id) \/ rs[MapGet(m, id).ws] /= OPEN
    THEN Outcome(m, FALSE, FALSE, <<>>, <<>>)
    ELSE LET payload == JSONstringify(WithTimestamp(message, TimestampOr(message, clock)))
             attempt == [id |-> id, ws |-> MapGet(m, id).ws, payload |-> payload,
                         threw |-> throws]
         IN  IF throws
             THEN Outcome(MapDelete(m, id), FALSE, FALSE, <<attempt>>, <<>>)
             ELSE Outcome(m, TRUE, FALSE, <<attempt>>, <<>>)

send(m, rs, id, message, clock, throws) ==
    IF ~MapHas(m, id) \/ rs[MapGet(m, id).ws] /= OPEN
    THEN Outcome(m, FALSE, FALSE, <<>>, <<>>)
    ELSE LET connection == MapGet(m, id)
             payload == JSONstringify(WithTimestamp(message, TimestampOr(message, clock)))
             attempt == [id |-> id, ws |-> connection.ws, payload |-> payload,
                         threw |-> throws]
         IN  IF throws
             THEN Outcome(m, FALSE, FALSE, <<attempt>>, <<>>)
             ELSE Outcome(m, TRUE, FALSE, <<attempt>>, <<>>)

\* Variants of broadcast() with one plausible slip each.
\* ... no readyState test before connection.ws.send(payload)
broadcast_IgnoresReadyState(m, rs, message, exclude, clock, failing) ==
    LET payload == JSONstringify(WithTimestamp(message, TimestampOr(message, clock)))
        targets == SelectSeq(m, LAMBDA e : e.key \notin exclude)
        attempts == [i \in DOMAIN targets |->
                        [id |-> targets[i].key, ws |-> targets[i].value.ws,
                         payload |-> payload, threw |-> targets[i].key \in failing]]
    IN  Outcome(m, Undefined, FALSE, attempts, <<>>)

\* ... no try/catch around connection.ws.send(payload): the first throw ends forEach
broadcast_NoTryCatch(m, rs, message, exclude, clock, failing) ==
    LET payload == JSONstringify(WithTimestamp(message, TimestampOr(message, clock)))
        targets == SelectSeq(m, LAMBDA e : e.key \notin exclude /\ rs[e.value.ws] = OPEN)
        thrown == {i \in DOMAIN targets : targets[i].key \in failing}
        last == IF thrown = {} THEN Len(targets)
                ELSE CHOOSE i \in thrown : \A j \in thrown : i <= j
        attempts == [i \in 1..last |->
                        [id |-> targets[i].key, ws |-> targets[i].value.ws,
                         payload |-> payload, threw |-> targets[i].key \in failing]]
    IN  Outcome(m, Undefined, thrown /= {}, attempts, <<>>)

\* ... a catch block that also drops the connections it could not write to
broadcast_DropsFailed(m, rs, message, exclude, clock, failing) ==
    LET payload == JSONstringify(WithTimestamp(message, TimestampOr(message, clock)))
        targets == SelectSeq(m, LAMBDA e : e.key \notin exclude /\ rs[e.value.ws] = OPEN)
        attempts == [i \in DOMAIN targets |->
                        [id |-> targets[i].key, ws |-> targets[i].value.ws,
                         payload |-> payload, threw |-> targets[i].key \in failing]]
    IN  Outcome(SelectSeq(m, LAMBDA e : e.key \notin failing), Undefined, FALSE,
                attempts, <<>>)

\* ... no exclude.includes(id) test
broadcast_IgnoresExclude(m, rs, message, exclude, clock, failing) ==
    LET payload == JSONstringify(WithTimestamp(message, TimestampOr(message, clock)))
        targets == SelectSeq(m, LAMBDA e : rs[e.value.ws] = OPEN)
        attempts == [i \in DOMAIN targets |->
                        [id |-> targets[i].key, ws |-> targets[i].value.ws,
                         payload |-> payload, threw |-> targets[i].key \in failing]]
    IN  Outcome(m, Undefined, FALSE, attempts, <<>>)

\* ... the frame built inside the loop: Date.now() is read again for every
\* recipient, and the clock has moved on by then
broadcast_StampsEach(m, rs, message, exclude, clock, failing) ==
    LET targets == SelectSeq(m, LAMBDA e : e.key \notin exclude /\ rs[e.value.ws] = OPEN)
        attempts == [i \in DOMAIN targets |->
                        [id |-> targets[i].key, ws |-> targets[i].value.ws,
                         payload |-> JSONstringify(WithTimestamp(message,
                                         TimestampOr(message, clock + i - 1))),
                         threw |-> targets[i].key \in failing]]
    IN  Outcome(m, Undefined, FALSE, attempts, <<>>)

\* const payload = JSON.stringify({...}) once, before the forEach.
broadcast(m, rs, message, exclude, clock, failing) ==
    LET payload == JSONstringify(WithTimestamp(message, TimestampOr(message, clock)))
        targets == SelectSeq(m, LAMBDA e : e.key \notin exclude /\ rs[e.value.ws] = OPEN)
        attempts == [i \in DOMAIN targets |->
                        [id |-> targets[i].key, ws |-> targets[i].value.ws,
                         payload |-> payload, threw |-> targets[i].key \in failing]]
    IN  Outcome(m, Undefined, FALSE, attempts, <<>>)

\* Variants of removeConnection() with one plausible slip each.
\* ... success reported whatever delete() said
removeConnection_ReportsTrue(m, id) ==
    Outcome(MapDelete(m, id), TRUE, FALSE, <<>>, <<>>)

\* ... the channel of the removed connection closed on the way out
removeConnection_ClosesChannel(m, id) ==
    IF ~MapHas(m, id)
    THEN Outcome(m, FALSE, FALSE, <<>>, <<>>)
    ELSE Outcome(MapDelete(m, id), TRUE, FALSE, <<>>,
                 <<[id |-> id, ws |-> MapGet(m, id).ws, threw |-> FALSE]>>)

removeConnection(m, id) ==
    Outcome(MapDelete(m, id), MapHas(m, id), FALSE, <<>>, <<>>)

\* Variants of disconnect() with one plausible slip each.
\* ... this.connections.delete(id) before connection.ws.close()
disconnect_DeletesFirst(m, id, throws) ==
    IF ~MapHas(m, id)
    THEN Outcome(m, FALSE, FALSE, <<>>, <<>>)
    ELSE LET attempt == [id |-> id, ws |-> MapGet(m, id).ws, threw |-> throws]
         IN  Outcome(MapDelete(m, id), ~throws, FALSE, <<>>, <<attempt>>)

\* ... the channel closed and the delete forgotten
disconnect_KeepsEntry(m, id, throws) ==
    IF ~MapHas(m, id)
    THEN Outcome(m, FALSE, FALSE, <<>>, <<>>)
    ELSE LET attempt == [id |-> id, ws |-> MapGet(m, id).ws, threw |-> throws]
         IN  Outcome(m, ~throws, FALSE, <<>>, <<attempt>>)

disconnect(m, id, throws) ==
    IF ~MapHas(m, id)
    THEN Outcome(m, FALSE, FALSE, <<>>, <<>>)
    ELSE LET attempt == [id |-> id, ws |-> MapGet(m, id).ws, threw |-> throws]
         IN  IF throws
             THEN Outcome(m, FALSE, FALSE, <<>>, <<attempt>>)
             ELSE Outcome(MapDelete(m, id), TRUE, FALSE, <<>>, <<attempt>>)

\* A variant of clear() without the try/catch around connection.ws.close():
\* the first throw ends forEach and skips this.connections.clear().
clear_NoTryCatch(m, failing) ==
    LET thrown == {i \in DOMAIN m : m[i].key \in failing}
        last == IF thrown = {} THEN Len(m)
                ELSE CHOOSE i \in thrown : \A j \in thrown : i <= j
        attempts == [i \in 1..last |->
                        [id |-> m[i].key, ws |-> m[i].value.ws,
                         threw |-> m[i].key \in failing]]
    IN  IF thrown = {}
        THEN Outcome(<<>>, Undefined, FALSE, <<>>, attempts)
        ELSE Outcome(m, Undefined, TRUE, <<>>, attempts)

clear(m, failing) ==
    LET attempts == [i \in DOMAIN m |->
                        [id |-> m[i].key, ws |-> m[i].value.ws,
                         threw |-> m[i].key \in failing]]
    IN  Outcome(<<>>, Undefined, FALSE, <<>>, attempts)

(***************************************************************************)
(* The transport adapter (createWebSocketHandler, and the dev plugin with  *)
(* the same callbacks).  Its 'connection' callback is async: it registers  *)
(* the ws, calls onConnect and is suspended until onConnect settles; only  *)
(* then does it arm the heartbeat and install the ws listeners.  A ws      *)
(* event emitted before that finds no listener.  Each listener is the      *)
(* outcome of one callback: the registry and the heartbeatTimers Map       *)
(* afterwards, the application handlers invoked (what each was given, what *)
(* it could see, whether it threw), the close() calls made on the channel, *)
(* the calls the callback made, in order, and whether the callback's own   *)
(* promise rejected.  `throwing` is the environment's choice of the        *)
(* handlers that throw or reject.                                          *)
(***************************************************************************)
\* heartbeat = true, the default of the options.
heartbeat == TRUE

\* rawData.toString(): JSON text, given by the key/value pairs it spells, or
\* text that is not JSON.
RawDatas ==
    {[json |-> TRUE, pairs |-> JSONstringify(Notice)],
     [json |-> TRUE, pairs |-> <<>>],
     [json |-> FALSE]}

\* JSON.parse: the object the text spells, or a SyntaxError thrown.
JSONparse(text) ==
    IF text.json
    THEN [threw |-> FALSE,
          value |-> [k \in {text.pairs[i][1] : i \in DOMAIN text.pairs} |->
                        FrameField(text.pairs, k)]]
    ELSE [threw |-> TRUE, error |-> "SyntaxError"]

\* The handlers of WSHandlers; the adapter of this model is given all four.
Handlers == {"onConnect", "onDisconnect", "onMessage", "onError"}

\* One call of an application handler, made when the registry is m and the
\* heartbeatTimers Map holds `timers`.
Invoke(handler, connection, arg, throwing, m, timers) ==
    [handler |-> handler, id |-> connection.id, arg |-> arg,
     threw |-> handler \in throwing,
     registered |-> MapHas(m, connection.id),
     timed |-> connection.id \in timers]

Handled(m, timers, invocations, cs, did, rejected) ==
    [connections |-> m, heartbeatTimers |-> timers, handled |-> invocations,
     closes |-> cs, did |-> did, rejected |-> rejected]

\* What verifyClient(info) can come to: true, false, or a rejected promise.
Verdicts == {"true", "false", "rejects"}

\* A variant of the verifyClient wrapper whose catch lets the client in.
verifyClientWrapper_CatchAccepts(verdict) == verdict /= "false"

\* Promise.resolve(verifyClient(info)).then(callback).catch(() => callback(false)):
\* what callback is called with.
verifyClientWrapper(verdict) == verdict = "true"

\* A variant of the 'connection' callback that tells the application before
\* it registers the connection.
connectionListener_ConnectFirst(m, timers, ws, id, throwing) ==
    LET added == addConnection(m, ws, "meta", id)
    IN  Handled(added.connections, timers,
                <<Invoke("onConnect", added.ret, Undefined, throwing, m, timers)>>,
                <<>>, <<"onConnect", "addConnection">>, FALSE)

\* wss.on('connection') up to its await: addConnection, then onConnect.
connectionListener(m, timers, ws, id, throwing) ==
    LET added == addConnection(m, ws, "meta", id)
    IN  Handled(added.connections, timers,
                <<Invoke("onConnect", added.ret, Undefined, throwing,
                         added.connections, timers)>>,
                <<>>, <<"addConnection", "onConnect">>, FALSE)

\* A variant of the rest of the 'connection' callback without the try/catch
\* around the await: a rejected onConnect ends the callback.
connectionResumed_NoTryCatch(m, timers, connection, failed) ==
    IF failed
    THEN Handled(m, timers, <<>>, <<>>, <<>>, TRUE)
    ELSE Handled(m, timers \cup {connection.id}, <<>>, <<>>,
                 <<"setInterval", "ws.on">>, FALSE)

\* The rest of the 'connection' callback, once onConnect has settled (a
\* rejection is caught and logged): setInterval, heartbeatTimers.set, ws.on(...).
connectionResumed(m, timers, connection, failed) ==
    IF heartbeat
    THEN Handled(m, timers \cup {connection.id}, <<>>, <<>>,
                 <<"setInterval", "ws.on">>, FALSE)
    ELSE Handled(m, timers, <<>>, <<>>, <<"ws.on">>, FALSE)

\* Variants of the 'message' listener with one plausible slip each.
\* ... JSON.parse before the try block: the SyntaxError rejects the
\* listener's promise and reaches no handler
messageListener_ParseOutsideTry(m, timers, connection, rawData, throwing) ==
    LET parsed == JSONparse(rawData)
    IN  IF parsed.threw
        THEN Handled(m, timers, <<>>, <<>>, <<>>, TRUE)
        ELSE LET first == Invoke("onMessage", connection, parsed.value, throwing,
                                 m, timers)
                 second == Invoke("onError", connection, "HandlerError", throwing,
                                  m, timers)
             IN  IF first.threw
                 THEN Handled(m, timers, <<first, second>>, <<>>, <<>>, second.threw)
                 ELSE Handled(m, timers, <<first>>, <<>>, <<>>, FALSE)

\* ... onMessage awaited outside the try block: its error reaches no handler
messageListener_NoCatch(m, timers, connection, rawData, throwing) ==
    LET parsed == JSONparse(rawData)
    IN  IF parsed.threw
        THEN LET only == Invoke("onError", connection, parsed.error, throwing,
                                m, timers)
             IN  Handled(m, timers, <<only>>, <<>>, <<>>, only.threw)
        ELSE LET first == Invoke("onMessage", connection, parsed.value, throwing,
                                 m, timers)
             IN  Handled(m, timers, <<first>>, <<>>, <<>>, first.threw)

\* ... the parsed message put on a queue that is drained later: no handler is
\* invoked while the listener runs
messageListener_Queued(m, timers, connection, rawData, throwing) ==
    LET parsed == JSONparse(rawData)
    IN  IF parsed.threw
        THEN LET only == Invoke("onError", connection, parsed.error, throwing,
                                m, timers)
             IN  Handled(m, timers, <<only>>, <<>>, <<>>, only.threw)
        ELSE Handled(m, timers, <<>>, <<>>, <<"queue.push">>, FALSE)

\* ws.on('message'): try { JSON.parse; await onMessage } catch { await onError }
messageListener(m, timers, connection, rawData, throwing) ==
    LET parsed == JSONparse(rawData)
    IN  IF parsed.threw
        THEN LET only == Invoke("onError", connection, parsed.error, throwing,
                                m, timers)
             IN  Handled(m, timers, <<only>>, <<>>, <<>>, only.threw)
        ELSE LET first == Invoke("onMessage", connection, parsed.value, throwing,
                                 m, timers)
                 second == Invoke("onError", connection, "HandlerError", throwing,
                                  m, timers)
             IN  IF first.threw
                 THEN Handled(m, timers, <<first, second>>, <<>>, <<>>, second.threw)
                 ELSE Handled(m, timers, <<first>>, <<>>, <<>>, FALSE)

\* ws.on('error'): await onError
errorListener(m, timers, connection, throwing) ==
    LET only == Invoke("onError", connection, "Error", throwing, m, timers)
    IN  Handled(m, timers, <<only>>, <<>>, <<>>, only.threw)

\* A variant of the 'close' listener that tells the application first.
closeListener_DisconnectFirst(m, timers, connection, throwing) ==
    Handled(removeConnection(m, connection.id).connections,
            timers \ {connection.id},
            <<Invoke("onDisconnect", connection, Undefined, throwing, m, timers)>>,
            <<>>,
            <<"onDisconnect", "removeConnection">>
                \o (IF connection.id \in timers THEN <<"clearInterval">> ELSE <<>>),
            FALSE)

\* ws.on('close'): if (timer) { clearInterval; heartbeatTimers.delete },
\* removeConnection, try { await onDisconnect } catch { log }
closeListener(m, timers, connection, throwing) ==
    LET cancelled == timers \ {connection.id}
        removed == removeConnection(m, connection.id).connections
    IN  Handled(removed, cancelled,
                <<Invoke("onDisconnect", connection, Undefined, throwing,
                         removed, cancelled)>>,
                <<>>,
                (IF connection.id \in timers THEN <<"clearInterval">> ELSE <<>>)
                    \o <<"removeConnection", "onDisconnect">>,
                FALSE)

\* A variant of the heartbeat callback that evicts a connection whose
\* channel is not open.
heartbeatTick_Evicts(m, timers, connection, rs) ==
    IF rs = OPEN
    THEN Handled(m, timers, <<>>, <<>>, <<"ping">>, FALSE)
    ELSE Handled(removeConnection(m, connection.id).connections,
                 timers \ {connection.id}, <<>>,
                 <<[id |-> connection.id, ws |-> connection.ws, threw |-> FALSE]>>,
                 <<"terminate">>, FALSE)

\* The setInterval callback: if (ws.readyState === WebSocket.OPEN) ws.ping()
heartbeatTick(m, timers, connection, rs) ==
    IF rs = OPEN
    THEN Handled(m, timers, <<>>, <<>>, <<"ping">>, FALSE)
    ELSE Handled(m, timers, <<>>, <<>>, <<>>, FALSE)

\* The rest of the 'message' listener once a pending onMessage has settled:
\* nothing when it fulfilled, catch { await onError } when it rejected.
messageResumed(m, timers, connection, failed, throwing) ==
    IF failed
    THEN LET only == Invoke("onError", connection, "HandlerError", throwing, m, timers)
         IN  Handled(m, timers, <<only>>, <<>>, <<>>, only.threw)
    ELSE Handled(m, timers, <<>>, <<>>, <<>>, FALSE)

\* httpServer.on('upgrade'): what becomes of the socket of the request.
upgradeListener(matches) == IF matches THEN "verifying" ELSE "destroyed"

\* The function createWebSocketHandler returns: heartbeatTimers.forEach(
\* clearInterval), heartbeatTimers.clear(), manager.clear(), wss.close().
cleanup(m, timers, failing) ==
    LET cleared == clear(m, failing)
    IN  Handled(cleared.connections, {}, <<>>, cleared.closes,
                [i \in 1..Cardinality(timers) |-> "clearInterval"]
                    \o <<"heartbeatTimers.clear", "manager.clear", "wss.close">>,
                FALSE)

(***************************************************************************)
(* The Vite plugin of development, webSocketServer(options): the same      *)
(* callbacks, written a second time in vite.ts.                            *)
(***************************************************************************)
\* verifyClient of the plugin's WebSocketServer.
pluginVerifyClient(verdict) == verdict = "true"

\* server.httpServer?.on('upgrade'): handleUpgrade when the path is the
\* plugin's; a request for another path is left to Vite.
pluginUpgrade(matches) == IF matches THEN "verifying" ELSE "ignored"

\* wss.on('connection') of the plugin up to its await.
pluginConnection(m, timers, ws, id, throwing) ==
    LET added == addConnection(m, ws, "meta", id)
    IN  Handled(added.connections, timers,
                <<Invoke("onConnect", added.ret, Undefined, throwing,
                         added.connections, timers)>>,
                <<>>, <<"addConnection", "onConnect">>, FALSE)

\* ... and after it: the heartbeat and the ws listeners.
pluginResumed(m, timers, connection, failed) ==
    IF heartbeat
    THEN Handled(m, timers \cup {connection.id}, <<>>, <<>>,
                 <<"setInterval", "ws.on">>, FALSE)
    ELSE Handled(m, timers, <<>>, <<>>, <<"ws.on">>, FALSE)

\* ws.on('message') of the plugin.
pluginMessage(m, timers, connection, rawData, throwing) ==
    LET parsed == JSONparse(rawData)
    IN  IF ~parsed.threw /\ "onMessage" \notin throwing
        THEN Handled(m, timers,
                     <<Invoke("onMessage", connection, parsed.value, throwing,
                              m, timers)>>,
                     <<>>, <<>>, FALSE)
        ELSE LET caught == Invoke("onError", connection,
                                  IF parsed.threw THEN parsed.error ELSE "HandlerError",
                                  throwing, m, timers)
             IN  Handled(m, timers,
                         (IF parsed.threw THEN <<>>
                          ELSE <<Invoke("onMessage", connection, parsed.value,
                                        throwing, m, timers)>>) \o <<caught>>,
                         <<>>, <<>>, caught.threw)

\* ws.on('error') of the plugin.
pluginError(m, timers, connection, throwing) ==
    Handled(m, timers,
            <<Invoke("onError", connection, "Error", throwing, m, timers)>>,
            <<>>, <<>>, "onError" \in throwing)

\* ws.on('close') of the plugin.
pluginClose(m, timers, connection, throwing) ==
    LET timer == connection.id \in timers
        cancelled == IF timer THEN timers \ {connection.id} ELSE timers
        removed == removeConnection(m, connection.id).connections
    IN  Handled(removed, cancelled,
                <<Invoke("onDisconnect", connection, Undefined, throwing,
                         removed, cancelled)>>,
                <<>>,
                (IF timer THEN <<"clearInterval">> ELSE <<>>)
                    \o <<"removeConnection", "onDisconnect">>,
                FALSE)

\* The setInterval callback of the plugin.
pluginHeartbeat(m, timers, connection, rs) ==
    Handled(m, timers, <<>>, <<>>, IF rs = OPEN THEN <<"ping">> ELSE <<>>, FALSE)

\* A variant of closeBundle() that leaves the registry to the next build.
closeBundle_KeepsRegistry(m, timers, failing) ==
    Handled(m, {}, <<>>, <<>>,
            [i \in 1..Cardinality(timers) |-> "clearInterval"]
                \o <<"heartbeatTimers.clear", "wss.close">>,
            FALSE)

\* closeBundle(): heartbeatTimers.forEach(clearInterval), heartbeatTimers.clear(),
\* manager.clear(), wss?.close().
closeBundle(m, timers, failing) ==
    LET cleared == clear(m, failing)
    IN  Handled(cleared.connections, {}, <<>>, cleared.closes,
                [i \in 1..Cardinality(timers) |-> "clearInterval"]
                    \o <<"heartbeatTimers.clear", "manager.clear", "wss.close">>,
                FALSE)

(***************************************************************************)
(* The client store of the example application, createWebSocketStore(      *)
(* config), in a browser.  `reconnect` is left at its default and          *)
(* config.url is well-formed, so that new WebSocket(url) does not throw;   *)
(* no userId is configured.                                                *)
(***************************************************************************)
\* The WebSocket objects a page creates in this model.
MaxSockets == 4

\* config.reconnectAttempts
reconnectAttempts == 2

\* The messages the store keeps in this model.
MaxMessages == 1

\* null, for a variable that holds a WebSocket or a timeout otherwise.
null == 0

\* The WebSocket objects by the order of their creation; the timeout an
\* onclose sets is named after the WebSocket that closed.
Sockets == 1..MaxSockets

reconnect == TRUE

NoError == "null"

\* The value the writable is created with, and set to by disconnect().
initial ==
    [connected |-> FALSE, identified |-> FALSE, messages |-> <<>>,
     error |-> NoError, reconnecting |-> FALSE]

\* message.type of the frames the server sends.
ServerTypes == {"identified", "x"}

(***************************************************************************)
(* The state machine.  JavaScript runs one callback at a time: a caller    *)
(* invokes one manager method (Call...), reads what it returned (Return),  *)
(* and only between calls does the environment move (Tick, ChannelEvent).  *)
(* `call`, `writes` and `closes` hold what the call in progress was given, *)
(* returned and did to the channels.                                       *)
(***************************************************************************)
NoCall == [op |-> "none"]

NoEvent == [type |-> "none"]

\* A socket no upgrade request has come from yet.  `alive`: the transport
\* has not closed it; `connectFailed`: the onConnect awaited threw or rejected;
\* `undecoded`, `messageFailed`: a frame that is not JSON has reached its
\* 'message' listener, an onMessage has thrown for one of its frames.
NewSocket ==
    [phase |-> "new", alive |-> TRUE, connectFailed |-> FALSE,
     undecoded |-> FALSE, messageFailed |-> FALSE]

\* No frame has reached the 'message' listener of the ws.
NoFrames == [received |-> <<>>, begun |-> <<>>, pending |-> 0]

Idle == call.op = "none" /\ event.type = "none"

\* The channels registered under the ids `ids`.
ChannelsOf(m, ids) == {m[i].value.ws : i \in {j \in DOMAIN m : m[j].key \in ids}}

\* What the reads of ws.readyState can return during one call that reads the
\* channels `chans`: the transport decides, the manager has no say.
ReadyStateReads(chans) == [chans -> ReadyStates]

Init ==
    /\ connections = <<>>
    /\ issued = {}
    /\ now = 0
    /\ call = NoCall
    /\ writes = <<>>
    /\ closes = <<>>
    /\ lastStamp = -1
    /\ adds = 0
    /\ removals = 0
    /\ snapshot = <<>>
    /\ sockets = [ws \in Channels |-> NewSocket]
    /\ heartbeatTimers = {}
    /\ event = NoEvent
    /\ handled = <<>>
    /\ wss = "running"
    /\ order = [ws \in Channels |-> NoFrames]
    /\ store = initial
    /\ client = [ws |-> null, reconnectTimer |-> null, reconnectCount |-> 0]
    /\ browser = [sockets |-> [s \in Sockets |-> "none"], timeouts |-> {}]
    /\ usage = [connect |-> FALSE, disconnect |-> FALSE, attempts |-> 0]

\* The effects of a call on the registry and on the channels.
Apply(out) ==
    /\ connections' = out.connections
    /\ writes' = out.writes
    /\ closes' = out.closes

CallAddConnection(ws, metadata) ==
    /\ Idle
    /\ Cardinality(issued) < MaxAdds
    /\ \E id \in randomUUID :
        LET out == addConnection(connections, ws, metadata, id)
        IN  /\ Apply(out)
            /\ issued' = issued \cup {id}
            /\ call' = [op |-> "addConnection", ws |-> ws, metadata |-> metadata,
                        ret |-> out.ret, raised |-> out.raised]
    /\ adds' = adds + 1
    /\ UNCHANGED <<others, now, lastStamp, removals>>

CallGetConnections ==
    /\ Idle
    /\ LET out == getConnections(connections)
       IN  /\ Apply(out)
           /\ call' = [op |-> "getConnections", ret |-> out.ret, raised |-> out.raised]
    /\ UNCHANGED <<others, issued, now, lastStamp, adds, removals>>

CallGetConnection(id) ==
    /\ Idle
    /\ call' = [op |-> "getConnection", id |-> id,
                ret |-> getConnection(connections, id), raised |-> FALSE]
    /\ UNCHANGED <<others, connections, issued, now, writes, closes, lastStamp, adds, removals>>

CallSize ==
    /\ Idle
    /\ call' = [op |-> "size", ret |-> size(connections), raised |-> FALSE]
    /\ UNCHANGED <<others, connections, issued, now, writes, closes, lastStamp, adds, removals>>

\* The call in progress is a send() that wrote a frame whose timestamp it took
\* from the clock.
Stamped ==
    /\ call.op = "send"
    /\ "timestamp" \notin DOMAIN call.message
    /\ writes /= <<>>
    /\ ~writes[1].threw

CallSend(id, message) ==
    /\ Idle
    /\ \E rs \in ReadyStateReads(ChannelsOf(connections, {id})), throws \in BOOLEAN :
        LET out == send(connections, rs, id, message, now, throws)
        IN  /\ Apply(out)
            /\ call' = [op |-> "send", id |-> id, message |-> message,
                        readyState |-> rs, ret |-> out.ret, raised |-> out.raised]
    /\ UNCHANGED <<others, issued, now, lastStamp, adds, removals>>

CallBroadcast(message, exclude) ==
    /\ Idle
    /\ \E rs \in ReadyStateReads(ChannelsOf(connections, Ids)) :
       \E failing \in SUBSET {k \in MapKeys(connections) \ exclude :
                                rs[MapGet(connections, k).ws] = OPEN} :
        LET out == broadcast(connections, rs, message, exclude, now, failing)
        IN  /\ Apply(out)
            /\ call' = [op |-> "broadcast", message |-> message, exclude |-> exclude,
                        readyState |-> rs, ret |-> out.ret, raised |-> out.raised]
    /\ UNCHANGED <<others, issued, now, lastStamp, adds, removals>>

CallRemoveConnection(id) ==
    /\ Idle
    /\ LET out == removeConnection(connections, id)
       IN  /\ Apply(out)
           /\ call' = [op |-> "removeConnection", id |-> id,
                       ret |-> out.ret, raised |-> out.raised]
           /\ removals' = IF out.ret THEN removals + 1 ELSE removals
    /\ UNCHANGED <<others, issued, now, lastStamp, adds>>

CallDisconnect(id) ==
    /\ Idle
    /\ \E throws \in (IF MapHas(connections, id) THEN BOOLEAN ELSE {FALSE}) :
        LET out == disconnect(connections, id, throws)
        IN  /\ Apply(out)
            /\ call' = [op |-> "disconnect", id |-> id,
                        ret |-> out.ret, raised |-> out.raised]
            /\ removals' = IF out.ret THEN removals + 1 ELSE removals
    /\ UNCHANGED <<others, issued, now, lastStamp, adds>>

CallClear ==
    /\ Idle
    /\ \E failing \in SUBSET MapKeys(connections) :
        LET out == clear(connections, failing)
        IN  /\ Apply(out)
            /\ call' = [op |-> "clear", ret |-> out.ret, raised |-> out.raised]
    /\ adds' = 0
    /\ removals' = 0
    /\ UNCHANGED <<others, issued, now, lastStamp>>

\* The caller has read the result; the manager is idle again.
Return ==
    /\ call.op /= "none"
    /\ call' = NoCall
    /\ writes' = <<>>
    /\ closes' = <<>>
    /\ lastStamp' = IF Stamped THEN FrameField(writes[1].payload, "timestamp")
                    ELSE lastStamp
    /\ UNCHANGED <<others, connections, issued, now, adds, removals>>

\* The environment: the clock advances.
Tick ==
    /\ Idle
    /\ now < MaxClock
    /\ now' = now + 1
    /\ UNCHANGED <<others, connections, issued, call, writes, closes, lastStamp,
                   adds, removals>>

\* The metadata bag is stored and never read by the manager: the callers of
\* this specification omit it.
Next ==
    \/ \E ws \in Channels : CallAddConnection(ws, Undefined)
    \/ CallGetConnections
    \/ \E id \in Ids : CallGetConnection(id)
    \/ CallSize
    \/ \E id \in Ids, message \in Messages : CallSend(id, message)
    \/ \E message \in Messages, exclude \in SUBSET Ids : CallBroadcast(message, exclude)
    \/ \E id \in Ids : CallRemoveConnection(id)
    \/ \E id \in Ids : CallDisconnect(id)
    \/ CallClear
    \/ Return
    \/ Tick

Spec == Init /\ [][Next]_vars

(***************************************************************************)
(* Callers that pass a metadata bag.  They send one kind of message.       *)
(***************************************************************************)
NextMetadata ==
    \/ \E ws \in Channels, metadata \in Metadatas : CallAddConnection(ws, metadata)
    \/ \E id \in Ids : CallGetConnection(id)
    \/ \E id \in Ids : CallSend(id, Notice)
    \/ \E exclude \in SUBSET Ids : CallBroadcast(Notice, exclude)
    \/ \E id \in Ids : CallRemoveConnection(id)
    \/ \E id \in Ids : CallDisconnect(id)
    \/ CallClear
    \/ Return

SpecMetadata == Init /\ [][NextMetadata]_vars

(***************************************************************************)
(* Callers that keep the Map getConnections() returned and change it with  *)
(* Map.prototype.set and Map.prototype.delete.  A Map that is the          *)
(* registry's own (`shared`) has the registry's entries, whatever it held  *)
(* when it was returned.                                                   *)
(***************************************************************************)
\* The entries of a Map getConnections() returned, as they are now.
EntriesOf(map, m) == IF map.shared THEN m ELSE map.entries

\* The entries of the Map the caller kept.
SnapshotEntries == EntriesOf(snapshot[1], connections)

\* The caller keeps the Map the call in progress returned.
ReturnKept ==
    /\ call.op = "getConnections"
    /\ snapshot' = <<call.ret>>
    /\ call' = NoCall
    /\ UNCHANGED <<connections, issued, now, writes, closes, lastStamp, adds, removals>>
    /\ UNCHANGED <<sockets, heartbeatTimers, event, handled, wss, order, clientSide>>

\* A change the caller makes to the Map it kept reaches the registry only if
\* the Map is the registry's own.
ChangeSnapshot(op, id, entries) ==
    /\ Idle
    /\ snapshot /= <<>>
    /\ IF snapshot[1].shared
       THEN connections' = entries /\ UNCHANGED snapshot
       ELSE snapshot' = <<[shared |-> FALSE, entries |-> entries]>>
            /\ UNCHANGED connections
    /\ call' = [op |-> op, id |-> id, raised |-> FALSE]
    /\ UNCHANGED <<issued, now, writes, closes, lastStamp, adds, removals>>
    /\ UNCHANGED <<sockets, heartbeatTimers, event, handled, wss, order, clientSide>>

\* kept.set(id, { ws, id })
SnapshotSet(id, ws) ==
    ChangeSnapshot("Map.set", id,
                   MapSet(SnapshotEntries, id,
                          [ws |-> ws, id |-> id, metadata |-> Undefined]))

\* kept.delete(id)
SnapshotDelete(id) ==
    ChangeSnapshot("Map.delete", id, MapDelete(SnapshotEntries, id))

NextSnapshot ==
    \/ \E ws \in Channels : CallAddConnection(ws, Undefined)
    \/ CallGetConnections
    \/ \E id \in Ids : CallGetConnection(id)
    \/ CallSize
    \/ \E id \in Ids : CallRemoveConnection(id)
    \/ \E id \in Ids : CallDisconnect(id)
    \/ CallClear
    \/ Return
    \/ ReturnKept
    \/ \E id \in Ids, ws \in Channels : SnapshotSet(id, ws)
    \/ \E id \in Ids : SnapshotDelete(id)

SpecSnapshot == Init /\ [][NextSnapshot]_vars

(***************************************************************************)
(* The transport adapter's callbacks.  The ws objects are the Channels;    *)
(* each is handed to the server once.                                      *)
(***************************************************************************)
\* The callback of an event has run; `event`, `handled` and `closes` say
\* what it did.
Ran(type, ws, fields, out) ==
    /\ event' = [type |-> type, ws |-> ws, did |-> out.did,
                 rejected |-> out.rejected] @@ fields
    /\ connections' = out.connections
    /\ heartbeatTimers' = out.heartbeatTimers
    /\ handled' = out.handled
    /\ closes' = out.closes

Nothing == Handled(connections, heartbeatTimers, <<>>, <<>>, <<>>, FALSE)

\* httpServer.on('upgrade'): handleUpgrade when the path is the server's,
\* socket.destroy() otherwise.
OnUpgrade(ws, matches) ==
    /\ Idle
    /\ sockets[ws].phase = "new"
    /\ Ran("upgrade", ws, [matches |-> matches], Nothing)
    /\ sockets' = [sockets EXCEPT ![ws].phase = upgradeListener(matches)]
    /\ UNCHANGED <<callers, wss, order, issued, adds, removals>>

\* verifyClient came to `verdict` and callback(false) was called: ws aborts
\* the handshake.
OnRefused(ws, verdict) ==
    /\ Idle
    /\ sockets[ws].phase = "verifying"
    /\ ~verifyClientWrapper(verdict)
    /\ Ran("verified", ws, [verdict |-> verdict], Nothing)
    /\ sockets' = [sockets EXCEPT ![ws].phase = "refused"]
    /\ UNCHANGED <<callers, wss, order, issued, adds, removals>>

\* verifyClient came to `verdict` and callback(true) was called: the
\* handshake completes and wss.on('connection') runs up to
\* `await handlers.onConnect?.(connection)`.
OnConnection(ws, verdict) ==
    /\ Idle
    /\ sockets[ws].phase = "verifying"
    /\ verifyClientWrapper(verdict)
    /\ wss = "running"
    /\ Cardinality(issued) < MaxAdds
    /\ \E id \in randomUUID, throwing \in SUBSET {"onConnect"} :
        /\ Ran("verified", ws, [verdict |-> verdict],
               connectionListener(connections, heartbeatTimers, ws, id, throwing))
        /\ issued' = issued \cup {id}
        /\ sockets' = [sockets EXCEPT ![ws] =
                         [phase |-> "onConnect", alive |-> TRUE,
                          connectFailed |-> "onConnect" \in throwing,
                          undecoded |-> FALSE, messageFailed |-> FALSE,
                          connection |-> addConnection(connections, ws, "meta", id).ret]]
    /\ adds' = adds + 1
    /\ UNCHANGED <<callers, wss, order, removals>>

\* onConnect has settled: the callback resumes.
OnConnectSettled(ws) ==
    /\ Idle
    /\ sockets[ws].phase = "onConnect"
    /\ LET out == connectionResumed(connections, heartbeatTimers,
                                    sockets[ws].connection, sockets[ws].connectFailed)
       IN  /\ Ran("resumed", ws, [failed |-> sockets[ws].connectFailed], out)
           /\ sockets' = [sockets EXCEPT
                            ![ws].phase =
                                IF \E i \in DOMAIN out.did : out.did[i] = "ws.on"
                                THEN "listening" ELSE "abandoned",
                            ![ws].connectFailed = FALSE]
    /\ UNCHANGED <<callers, wss, order, issued, adds, removals>>

\* The ws emits 'message'.  Without a listener the frame is dropped.  What
\* `order` keeps of the frame is the specification's to say.
OnMessage(ws, rawData) ==
    /\ Idle
    /\ sockets[ws].phase \in {"onConnect", "listening"}
    /\ sockets[ws].alive
    /\ IF sockets[ws].phase = "listening"
       THEN \E throwing \in SUBSET {"onMessage", "onError"} :
                /\ Ran("message", ws, [rawData |-> rawData],
                       messageListener(connections, heartbeatTimers,
                                       sockets[ws].connection, rawData, throwing))
                /\ sockets' = [sockets EXCEPT
                                 ![ws].undecoded = @ \/ JSONparse(rawData).threw,
                                 ![ws].messageFailed =
                                     @ \/ (/\ ~JSONparse(rawData).threw
                                           /\ "onMessage" \in throwing)]
       ELSE /\ Ran("message", ws, [rawData |-> rawData], Nothing)
            /\ UNCHANGED sockets
    /\ UNCHANGED <<callers, wss, issued, adds, removals>>

\* The ws emits 'error'.
OnError(ws) ==
    /\ Idle
    /\ sockets[ws].phase \in {"onConnect", "listening"}
    /\ sockets[ws].alive
    /\ IF sockets[ws].phase = "listening"
       THEN \E throwing \in SUBSET {"onError"} :
                Ran("error", ws, << >>,
                    errorListener(connections, heartbeatTimers,
                                  sockets[ws].connection, throwing))
       ELSE Ran("error", ws, << >>, Nothing)
    /\ UNCHANGED <<callers, wss, order, sockets, issued, adds, removals>>

\* The transport closes and the ws emits 'close', once.
OnClose(ws) ==
    /\ Idle
    /\ sockets[ws].phase \in {"onConnect", "listening"}
    /\ sockets[ws].alive
    /\ IF sockets[ws].phase = "listening"
       THEN \E throwing \in SUBSET {"onDisconnect"} :
                Ran("close", ws, << >>,
                    closeListener(connections, heartbeatTimers,
                                  sockets[ws].connection, throwing))
       ELSE Ran("close", ws, << >>, Nothing)
    /\ sockets' = [sockets EXCEPT ![ws].alive = FALSE]
    /\ removals' = IF MapHas(connections, sockets[ws].connection.id)
                      /\ sockets[ws].phase = "listening"
                   THEN removals + 1 ELSE removals
    /\ UNCHANGED <<callers, wss, order, issued, adds>>

\* The setInterval callback of a connection whose timer has not been cleared.
HeartbeatTimer(ws) ==
    /\ Idle
    /\ sockets[ws].phase = "listening"
    /\ sockets[ws].connection.id \in heartbeatTimers
    /\ \E rs \in (IF sockets[ws].alive THEN {s \in ReadyStates : s >= OPEN}
                  ELSE {s \in ReadyStates : s > OPEN}) :
        Ran("heartbeat", ws, [readyState |-> rs],
            heartbeatTick(connections, heartbeatTimers, sockets[ws].connection, rs))
    /\ UNCHANGED <<callers, wss, order, sockets, issued, adds, removals>>

\* The callback has run to its end (or to its unhandled rejection).
Settle ==
    /\ event.type /= "none"
    /\ event' = NoEvent
    /\ handled' = <<>>
    /\ closes' = <<>>
    /\ UNCHANGED <<callers, wss, order, connections, issued, adds, removals,
                   sockets, heartbeatTimers>>

NextAdapter ==
    \/ \E ws \in Channels, matches \in BOOLEAN : OnUpgrade(ws, matches)
    \/ \E ws \in Channels, verdict \in Verdicts : OnRefused(ws, verdict)
    \/ \E ws \in Channels, verdict \in Verdicts : OnConnection(ws, verdict)
    \/ \E ws \in Channels : OnConnectSettled(ws)
    \/ \E ws \in Channels, rawData \in RawDatas :
            OnMessage(ws, rawData) /\ UNCHANGED order
    \/ \E ws \in Channels : OnError(ws)
    \/ \E ws \in Channels : OnClose(ws)
    \/ \E ws \in Channels : HeartbeatTimer(ws)
    \/ Settle

SpecAdapter == Init /\ [][NextAdapter]_vars

(***************************************************************************)
(* Application code holds the manager too (getWebSocketManager()) and      *)
(* calls removeConnection, disconnect and clear on it between the          *)
(* adapter's callbacks.  Its clients send nothing and every upgrade        *)
(* request is for the server's path and is let in.                         *)
(***************************************************************************)
NextApplication ==
    \/ \E ws \in Channels : OnUpgrade(ws, TRUE)
    \/ \E ws \in Channels : OnConnection(ws, "true")
    \/ \E ws \in Channels : OnConnectSettled(ws)
    \/ \E ws \in Channels : OnClose(ws)
    \/ Settle
    \/ \E id \in Ids : CallRemoveConnection(id)
    \/ \E id \in Ids : CallDisconnect(id)
    \/ CallClear
    \/ Return

SpecApplication == Init /\ [][NextApplication]_vars

(***************************************************************************)
(* Handlers that take their time.  `await handlers.onMessage?.(...)`       *)
(* suspends the 'message' listener until the handler's promise settles;    *)
(* the ws goes on emitting 'message' for the frames that follow, in the    *)
(* order the transport received them.                                      *)
(***************************************************************************)
\* The frames per connection this specification follows.
MaxFrames == 2

\* The arguments of the onMessage invocations among `invocations`, in order.
Begun(invocations) ==
    LET calls == SelectSeq(invocations, LAMBDA h : h.handler = "onMessage")
    IN  [i \in DOMAIN calls |-> calls[i].arg]

\* What `order` keeps of the frame a step of OnMessage gave to the listener.
Logged(ws, rawData) ==
    /\ Len(order[ws].received) < MaxFrames
    /\ order' = IF sockets[ws].phase = "listening"
                THEN [order EXCEPT ![ws].received = Append(@, rawData),
                                   ![ws].begun = @ \o Begun(handled')]
                ELSE order

\* The onMessage just invoked returned a promise that is still pending: the
\* listener stays suspended at its await and the event loop moves on.
Suspend ==
    /\ event.type = "message"
    /\ Len(handled) = 1
    /\ handled[1].handler = "onMessage"
    /\ ~handled[1].threw
    /\ event' = NoEvent
    /\ handled' = <<>>
    /\ closes' = <<>>
    /\ order' = [order EXCEPT ![event.ws].pending = @ + 1]
    /\ UNCHANGED <<callers, wss, connections, issued, adds, removals, sockets,
                   heartbeatTimers>>

\* A pending onMessage of the connection settles and its listener resumes.
OnMessageSettled(ws, failed) ==
    /\ Idle
    /\ order[ws].pending > 0
    /\ \E throwing \in SUBSET {"onError"} :
        Ran("settled", ws, [failed |-> failed],
            messageResumed(connections, heartbeatTimers, sockets[ws].connection,
                           failed, throwing))
    /\ order' = [order EXCEPT ![ws].pending = @ - 1]
    /\ UNCHANGED <<callers, wss, sockets, issued, adds, removals>>

\* One client is followed: the order in question is that of a single connection.
OneClient == {CHOOSE ws \in Channels : TRUE}

NextOrder ==
    \/ \E ws \in OneClient : OnUpgrade(ws, TRUE)
    \/ \E ws \in OneClient : OnConnection(ws, "true")
    \/ \E ws \in OneClient : OnConnectSettled(ws)
    \/ \E ws \in OneClient, rawData \in RawDatas :
            OnMessage(ws, rawData) /\ Logged(ws, rawData)
    \/ Suspend
    \/ \E ws \in OneClient, failed \in BOOLEAN : OnMessageSettled(ws, failed)
    \/ \E ws \in OneClient : OnClose(ws)
    \/ Settle

SpecOrder == Init /\ [][NextOrder]_vars

(***************************************************************************)
(* Teardown.  The server's owner calls the function createWebSocketHandler *)
(* returned, between the adapter's callbacks.  A WebSocketServer that has  *)
(* been closed completes no handshake: it answers 503.                     *)
(***************************************************************************)
Cleanup ==
    /\ Idle
    /\ wss = "running"
    /\ \E failing \in SUBSET MapKeys(connections) :
        LET out == cleanup(connections, heartbeatTimers, failing)
        IN  /\ event' = [type |-> "cleanup", did |-> out.did, rejected |-> out.rejected]
            /\ connections' = out.connections
            /\ heartbeatTimers' = out.heartbeatTimers
            /\ handled' = out.handled
            /\ closes' = out.closes
    /\ wss' = "closed"
    /\ adds' = 0
    /\ removals' = 0
    /\ UNCHANGED <<callers, order, sockets, issued>>

\* verifyClient let the client in, but the server has been closed meanwhile.
OnAborted(ws) ==
    /\ Idle
    /\ sockets[ws].phase = "verifying"
    /\ wss = "closed"
    /\ Ran("aborted", ws, << >>, Nothing)
    /\ sockets' = [sockets EXCEPT ![ws].phase = "refused"]
    /\ UNCHANGED <<callers, wss, order, issued, adds, removals>>

NextTeardown ==
    \/ \E ws \in Channels, matches \in BOOLEAN : OnUpgrade(ws, matches)
    \/ \E ws \in Channels, verdict \in Verdicts : OnRefused(ws, verdict)
    \/ \E ws \in Channels, verdict \in Verdicts : OnConnection(ws, verdict)
    \/ \E ws \in Channels : OnAborted(ws)
    \/ \E ws \in Channels : OnConnectSettled(ws)
    \/ \E ws \in Channels, rawData \in RawDatas :
            OnMessage(ws, rawData) /\ UNCHANGED order
    \/ \E ws \in Channels : OnError(ws)
    \/ \E ws \in Channels : OnClose(ws)
    \/ \E ws \in Channels : HeartbeatTimer(ws)
    \/ Cleanup
    \/ Settle

SpecTeardown == Init /\ [][NextTeardown]_vars

(***************************************************************************)
(* The client store's functions and the callbacks it gives each WebSocket. *)
(* The browser moves a WebSocket from CONNECTING to OPEN (open), fails it  *)
(* (error, then close) or closes it (close); close() moves it to CLOSING   *)
(* and its close event follows.  Every callback belongs to the WebSocket   *)
(* it was set on, whatever `ws` holds by the time it runs.                 *)
(***************************************************************************)
serverSide ==
    <<connections, issued, now, call, writes, closes, lastStamp, adds, removals,
      snapshot, sockets, heartbeatTimers, event, handled, wss, order>>

\* The page can create another WebSocket.
CanCreate == \E s \in Sockets : browser.sockets[s] = "none"

\* connect(): ws = new WebSocket(url), with its four callbacks.
connect(c, b) ==
    LET s == CHOOSE t \in Sockets :
                /\ b.sockets[t] = "none"
                /\ \A u \in Sockets : u < t => b.sockets[u] /= "none"
    IN  [client |-> [c EXCEPT !.ws = s],
         browser |-> [b EXCEPT !.sockets[s] = "CONNECTING"]]

\* WebSocket.close(): a socket that is connecting or open starts closing.
close(readyState) ==
    IF readyState \in {"CONNECTING", "OPEN"} THEN "CLOSING" ELSE readyState

\* disconnect(): clearTimeout(reconnectTimer), ws.close(), ws = null,
\* reconnectCount = 0, set(initial).
storeDisconnect(c, b) ==
    LET cleared == IF c.reconnectTimer /= null
                   THEN [b EXCEPT !.timeouts = @ \ {c.reconnectTimer}] ELSE b
        closed == IF c.ws /= null
                  THEN [cleared EXCEPT !.sockets[c.ws] = close(@)] ELSE cleared
    IN  [client |-> [ws |-> null, reconnectTimer |-> null, reconnectCount |-> 0],
         browser |-> closed]

\* The page calls connect(): when it starts, or again after a disconnect().
PageConnects ==
    /\ usage.connect = usage.disconnect
    /\ CanCreate
    /\ client' = connect(client, browser).client
    /\ browser' = connect(client, browser).browser
    /\ usage' = [connect |-> TRUE, disconnect |-> FALSE, attempts |-> 0]
    /\ UNCHANGED <<serverSide, store>>

\* The page calls disconnect().
PageDisconnects ==
    /\ usage.connect
    /\ ~usage.disconnect
    /\ client' = storeDisconnect(client, browser).client
    /\ browser' = storeDisconnect(client, browser).browser
    /\ store' = initial
    /\ usage' = [usage EXCEPT !.disconnect = TRUE]
    /\ UNCHANGED serverSide

\* ws.onopen
onopen(s) ==
    /\ browser.sockets[s] = "CONNECTING"
    /\ browser' = [browser EXCEPT !.sockets[s] = "OPEN"]
    /\ client' = [client EXCEPT !.reconnectCount = 0]
    /\ store' = [store EXCEPT !.connected = TRUE, !.error = NoError,
                              !.reconnecting = FALSE]
    /\ usage' = [usage EXCEPT !.attempts = 0]
    /\ UNCHANGED serverSide

\* ws.onmessage, for a frame that is JSON.
onmessage(s, type) ==
    /\ browser.sockets[s] = "OPEN"
    /\ Len(store.messages) < MaxMessages
    /\ store' = [store EXCEPT !.identified = @ \/ type = "identified",
                              !.messages = Append(@, type)]
    /\ UNCHANGED <<serverSide, client, browser, usage>>

\* ws.onerror: the connection has failed; its close event follows.
onerror(s) ==
    /\ browser.sockets[s] \in {"CONNECTING", "OPEN", "CLOSING"}
    /\ browser' = [browser EXCEPT !.sockets[s] = "FAILED"]
    /\ store' = [store EXCEPT !.error = "WebSocket connection error",
                              !.reconnecting = FALSE]
    /\ UNCHANGED <<serverSide, client, usage>>

\* ws.onclose
onclose(s) ==
    /\ browser.sockets[s] \in {"OPEN", "CLOSING", "FAILED"}
    /\ IF reconnect /\ client.reconnectCount < reconnectAttempts
       THEN /\ store' = [store EXCEPT !.connected = FALSE, !.identified = FALSE,
                                      !.reconnecting = TRUE]
            /\ client' = [client EXCEPT !.reconnectTimer = s]
            /\ browser' = [browser EXCEPT !.sockets[s] = "CLOSED",
                                          !.timeouts = @ \cup {s}]
       ELSE /\ store' = IF client.reconnectCount >= reconnectAttempts
                        THEN [store EXCEPT !.connected = FALSE, !.identified = FALSE,
                                           !.error = "Failed to reconnect",
                                           !.reconnecting = FALSE]
                        ELSE [store EXCEPT !.connected = FALSE, !.identified = FALSE]
            /\ browser' = [browser EXCEPT !.sockets[s] = "CLOSED"]
            /\ UNCHANGED client
    /\ UNCHANGED <<serverSide, usage>>

\* The callback of setTimeout: reconnectCount++, connect().
reconnectTimeout(t) ==
    /\ t \in browser.timeouts
    /\ CanCreate
    /\ LET counted == [client EXCEPT !.reconnectCount = @ + 1]
           fired == [browser EXCEPT !.timeouts = @ \ {t}]
       IN  /\ client' = connect(counted, fired).client
           /\ browser' = connect(counted, fired).browser
    /\ usage' = [usage EXCEPT !.attempts = @ + 1]
    /\ UNCHANGED <<serverSide, store>>

NextStore ==
    \/ PageConnects
    \/ PageDisconnects
    \/ \E s \in Sockets : onopen(s)
    \/ \E s \in Sockets, type \in ServerTypes : onmessage(s, type)
    \/ \E s \in Sockets : onerror(s)
    \/ \E s \in Sockets : onclose(s)
    \/ \E t \in Sockets : reconnectTimeout(t)

SpecStore == Init /\ [][NextStore]_vars

(***************************************************************************)
(* Properties of the manager.  A state in which `call` is not NoCall is    *)
(* the state right after that call ran; a step into it is the call.        *)
(***************************************************************************)
\* The channel the registry holds for a registered id.
ChannelOf(m, id) == MapGet(m, id).ws

\* The send() calls of the call in progress made for the connection `id`.
WritesFor(id) == {i \in DOMAIN writes : writes[i].id = id}

\* The frame carries the message's type and data.
Carries(payload, message) ==
    /\ FrameHas(payload, "type")
    /\ FrameField(payload, "type") = message.type
    /\ FrameHas(payload, "data")
    /\ FrameField(payload, "data") = message.data

\* C1: for every sequence of addConnection, removeConnection and disconnect
\* calls (counted since the registry was new or last cleared), size() is the
\* number of addConnection calls minus the number of removeConnection and
\* disconnect calls that returned true; and removing an id that was issued
\* and is no longer registered returns false and leaves size() as it was.
C1_SizeAccounting ==
    /\ [](size(connections) = adds - removals)
    /\ [][(/\ call'.op \in {"removeConnection", "disconnect"}
           /\ call'.id \in issued
           /\ ~MapHas(connections, call'.id))
          => (/\ call'.ret = FALSE
              /\ size(connections') = size(connections))]_vars

\* Two connections were added, one was removed, and it is removed again.
C1_Witness ==
    /\ call.op = "removeConnection"
    /\ call.id \in issued
    /\ call.ret = FALSE
    /\ adds = 2
    /\ removals = 1
    /\ size(connections) = 1

\* A registered connection is a recipient of the broadcast in progress.
Eligible(k) ==
    /\ k \notin call.exclude
    /\ call.readyState[ChannelOf(connections, k)] = OPEN

\* C2: broadcast(msg, exclude) calls ws.send exactly once, with the frame of
\* msg, for every registered connection whose id is not in exclude and whose
\* channel is open, and not at all for any other connection; so a channel
\* receives as many frames as there are such connections registered with it
\* (one, when it is registered once).  An empty exclude is the default.
C2_BroadcastDelivery ==
    call.op = "broadcast" =>
        /\ \A k \in MapKeys(connections) :
            Cardinality(WritesFor(k)) = IF Eligible(k) THEN 1 ELSE 0
        /\ \A i \in DOMAIN writes :
            /\ writes[i].id \in MapKeys(connections)
            /\ writes[i].ws = ChannelOf(connections, writes[i].id)
            /\ Carries(writes[i].payload, call.message)
        /\ \A ch \in Channels :
            Cardinality({i \in DOMAIN writes : writes[i].ws = ch}) =
            Cardinality({k \in MapKeys(connections) :
                            ChannelOf(connections, k) = ch /\ Eligible(k)})

\* Two connections on two channels, the first excluded: only the second is written.
C2_Witness ==
    /\ call.op = "broadcast"
    /\ call.exclude = {1}
    /\ Len(connections) = 2
    /\ ChannelOf(connections, 1) /= ChannelOf(connections, 2)
    /\ Len(writes) = 1
    /\ writes[1].id = 2
    /\ ~writes[1].threw

\* C3: when a ws.send inside broadcast throws, ws.send is still called for
\* every open, non-excluded connection, no exception reaches the caller and
\* the registry is what it was.
C3_BroadcastIsolation ==
    [][(/\ call'.op = "broadcast"
        /\ \E i \in DOMAIN writes' : writes'[i].threw)
       => (/\ \A k \in MapKeys(connections) :
                (/\ k \notin call'.exclude
                 /\ call'.readyState[ChannelOf(connections, k)] = OPEN)
                => \E i \in DOMAIN writes' :
                    /\ writes'[i].id = k
                    /\ writes'[i].ws = ChannelOf(connections, k)
                    /\ Carries(writes'[i].payload, call'.message)
           /\ call'.raised = FALSE
           /\ connections' = connections)]_vars

\* The write to the first recipient threw and the second was still written.
C3_Witness ==
    /\ call.op = "broadcast"
    /\ Len(writes) = 2
    /\ writes[1].threw
    /\ ~writes[2].threw
    /\ writes[1].ws /= writes[2].ws

\* C4: send(id, msg) on a registered connection whose channel is open calls
\* ws.send once, on that connection's channel and on no other, with a frame
\* carrying msg's type and data, and returns true when that call does not throw.
C4_SendDelivers ==
    (/\ call.op = "send"
     /\ MapHas(connections, call.id)
     /\ call.readyState[ChannelOf(connections, call.id)] = OPEN)
    => (/\ Len(writes) = 1
        /\ writes[1].ws = ChannelOf(connections, call.id)
        /\ Carries(writes[1].payload, call.message)
        /\ ~writes[1].threw => call.ret = TRUE)

\* A send to one of two connections on different channels succeeded.
C4_Witness ==
    /\ call.op = "send"
    /\ call.ret = TRUE
    /\ Len(connections) = 2
    /\ ChannelOf(connections, 1) /= ChannelOf(connections, 2)
    /\ Len(writes) = 1
    /\ ~writes[1].threw

\* C5: send(id, msg) on a registered connection whose channel is not open
\* (CONNECTING, CLOSING or CLOSED) returns false and calls ws.send on no channel.
C5_SendNotOpen ==
    (/\ call.op = "send"
     /\ MapHas(connections, call.id)
     /\ call.readyState[ChannelOf(connections, call.id)] /= OPEN)
    => (/\ call.ret = FALSE
        /\ writes = <<>>)

\* A send to a registered connection whose channel is CLOSING.
C5_Witness ==
    /\ call.op = "send"
    /\ MapHas(connections, call.id)
    /\ call.readyState[ChannelOf(connections, call.id)] = 2
    /\ call.ret = FALSE

\* C6: for an id that is not registered, send, disconnect and
\* removeConnection return false and getConnection returns undefined; none
\* raises, none calls send or close on a channel, none changes the registry.
C6_LookupMiss ==
    [][(/\ call'.op \in {"send", "disconnect", "removeConnection", "getConnection"}
        /\ ~MapHas(connections, call'.id))
       => (/\ call'.raised = FALSE
           /\ IF call'.op = "getConnection" THEN call'.ret = {} ELSE call'.ret = FALSE
           /\ writes' = <<>>
           /\ closes' = <<>>
           /\ connections' = connections)]_vars

\* A send to an id that is not in a registry holding another connection.
C6_Witness ==
    /\ call.op = "send"
    /\ ~MapHas(connections, call.id)
    /\ connections /= <<>>
    /\ call.ret = FALSE

\* C7: when ws.send throws inside send, send returns false, raises nothing,
\* and the connection is still registered: getConnection(id) returns the
\* record it returned before and size() is what it was.
C7_SendFailureKeepsConnection ==
    [][(/\ call'.op = "send"
        /\ writes' /= <<>>
        /\ writes'[1].threw)
       => (/\ call'.ret = FALSE
           /\ call'.raised = FALSE
           /\ getConnection(connections', call'.id) /= {}
           /\ getConnection(connections', call'.id) = getConnection(connections, call'.id)
           /\ size(connections') = size(connections))]_vars

\* A send whose ws.send threw.
C7_Witness ==
    /\ call.op = "send"
    /\ writes /= <<>>
    /\ writes[1].threw
    /\ call.ret = FALSE
    /\ MapHas(connections, call.id)

\* C8 (as claimed): a frame written by send or broadcast for a message with a
\* caller-supplied timestamp t >= 0 carries exactly t.
C8_TimestampPreserved ==
    (/\ call.op \in {"send", "broadcast"}
     /\ "timestamp" \in DOMAIN call.message)
    => \A i \in DOMAIN writes :
        /\ FrameHas(writes[i].payload, "timestamp")
        /\ FrameField(writes[i].payload, "timestamp") = call.message.timestamp

\* C9: a frame written by send or broadcast for a message without a timestamp
\* carries the clock value of the call, and the frames send() stamps carry
\* timestamps that never decrease from one send to the next.
C9_TimestampFromClock ==
    /\ (/\ call.op \in {"send", "broadcast"}
        /\ "timestamp" \notin DOMAIN call.message)
       => \A i \in DOMAIN writes :
            /\ FrameHas(writes[i].payload, "timestamp")
            /\ FrameField(writes[i].payload, "timestamp") = now
    /\ Stamped => FrameField(writes[1].payload, "timestamp") >= lastStamp

\* A send stamped 1 after an earlier send was stamped 0.
C9_Witness ==
    /\ Stamped
    /\ lastStamp = 0
    /\ now = 1
    /\ FrameField(writes[1].payload, "timestamp") = 1

\* C10: disconnect(id) on a registered connection calls close once, on that
\* connection's channel and on no other; when close does not throw it
\* returns true, getConnection(id) is undefined afterwards, size() is one
\* less and the other entries are untouched.
C10_Disconnect ==
    [][(/\ call'.op = "disconnect"
        /\ MapHas(connections, call'.id))
       => (/\ Len(closes') = 1
           /\ closes'[1].ws = ChannelOf(connections, call'.id)
           /\ ~closes'[1].threw
              => (/\ call'.ret = TRUE
                  /\ getConnection(connections', call'.id) = {}
                  /\ size(connections') = size(connections) - 1
                  /\ connections' = MapDelete(connections, call'.id)))]_vars

\* One of two connections was disconnected.
C10_Witness ==
    /\ call.op = "disconnect"
    /\ call.ret = TRUE
    /\ Len(closes) = 1
    /\ ~closes[1].threw
    /\ Len(connections) = 1
    /\ adds = 2

\* The close() calls of the call in progress made for the connection `id`.
ClosesFor(cs, id) == {i \in DOMAIN cs : cs[i].id = id}

\* C11: when close throws inside disconnect(id), disconnect returns false and
\* raises nothing, and the connection stays registered: the registry and
\* size() are what they were, and a later disconnect(id) or
\* removeConnection(id) still finds the connection.
C11_DisconnectCloseThrows ==
    [][(/\ call'.op = "disconnect"
        /\ closes' /= <<>>
        /\ closes'[1].threw)
       => (/\ call'.ret = FALSE
           /\ call'.raised = FALSE
           /\ connections' = connections
           /\ size(connections') = size(connections)
           /\ getConnection(connections', call'.id) /= {}
           /\ disconnect(connections', call'.id, FALSE).ret = TRUE
           /\ removeConnection(connections', call'.id).ret = TRUE)]_vars

\* A disconnect whose close threw, with the connection still in the registry.
C11_Witness ==
    /\ call.op = "disconnect"
    /\ closes /= <<>>
    /\ closes[1].threw
    /\ call.ret = FALSE
    /\ MapHas(connections, call.id)

\* C12: removeConnection(id) deletes the entry of id when there is one and
\* returns true, returns false when there is none, leaves every other entry
\* as it was, calls neither close nor send on any channel, and a second
\* removeConnection(id) right after leaves the registry as the first left it.
C12_RemoveConnection ==
    [][(call'.op = "removeConnection")
       => (/\ call'.ret = MapHas(connections, call'.id)
           /\ call'.raised = FALSE
           /\ MapKeys(connections') = MapKeys(connections) \ {call'.id}
           /\ \A k \in MapKeys(connections') :
                MapGet(connections', k) = MapGet(connections, k)
           /\ closes' = <<>>
           /\ writes' = <<>>
           /\ removeConnection(connections', call'.id).connections = connections'
           /\ removeConnection(connections', call'.id).ret = FALSE)]_vars

\* One of two registered connections was removed; the other is still there.
C12_Witness ==
    /\ call.op = "removeConnection"
    /\ call.ret = TRUE
    /\ adds = 2
    /\ removals = 1
    /\ size(connections) = 1
    /\ ~MapHas(connections, call.id)
    /\ closes = <<>>

\* C13: clear() leaves size() = 0, calls close exactly once for every
\* connection that was registered, on that connection's channel (so a channel
\* is closed as many times as there were connections registered with it),
\* also when some of the close calls throw, and raises nothing.
C13_Clear ==
    [][(call'.op = "clear")
       => (/\ size(connections') = 0
           /\ call'.raised = FALSE
           /\ Len(closes') = size(connections)
           /\ \A k \in MapKeys(connections) :
                /\ Cardinality(ClosesFor(closes', k)) = 1
                /\ \A i \in ClosesFor(closes', k) :
                    closes'[i].ws = ChannelOf(connections, k)
           /\ \A ch \in Channels :
                Cardinality({i \in DOMAIN closes' : closes'[i].ws = ch}) =
                Cardinality({k \in MapKeys(connections) :
                                ChannelOf(connections, k) = ch}))]_vars

\* A clear of two connections on two channels: the first close threw, the
\* second channel was closed all the same.
C13_Witness ==
    /\ call.op = "clear"
    /\ Len(closes) = 2
    /\ closes[1].threw
    /\ ~closes[2].threw
    /\ closes[1].ws /= closes[2].ws
    /\ size(connections) = 0

\* C16: every key of the registry maps to one record, whose id is that key,
\* and every addConnection returns a record whose id differs from the id
\* returned by every earlier addConnection, removed or cleared ones included.
C16_KeysAndFreshIds ==
    /\ [](\A i \in DOMAIN connections :
            /\ connections[i].value.id = connections[i].key
            /\ \A j \in DOMAIN connections :
                connections[j].key = connections[i].key => j = i)
    /\ [][(call'.op = "addConnection")
          => (/\ call'.ret.id \notin issued
              /\ getConnection(connections', call'.ret.id) = {call'.ret})]_vars

\* An addConnection after the first connection was removed: the new id is
\* not the removed one.
C16_Witness ==
    /\ call.op = "addConnection"
    /\ adds = 2
    /\ removals = 1
    /\ call.ret.id = 2
    /\ 1 \in issued
    /\ ~MapHas(connections, 1)

\* C17 (as claimed): no two entries of the registry hold the same channel.
C17_ChannelsDistinct ==
    \A i, j \in DOMAIN connections :
        connections[i].value.ws = connections[j].value.ws => i = j

\* C18: send, broadcast, getConnection, getConnections and size leave the
\* registry -- its ids, their order and their records -- as it was, whatever
\* the readyState of the channels and whether or not a ws.send throws.
C18_ReadsLeaveRegistry ==
    [][(call'.op \in {"send", "broadcast", "getConnection", "getConnections", "size"})
       => connections' = connections]_vars

\* A broadcast over two connections: one channel was not open, the write to
\* the other threw, and both connections are still registered.
C18_Witness ==
    /\ call.op = "broadcast"
    /\ call.exclude = {}
    /\ size(connections) = 2
    /\ Len(writes) = 1
    /\ writes[1].threw
    /\ \E k \in MapKeys(connections) :
        call.readyState[ChannelOf(connections, k)] /= OPEN


\* The broadcast in progress excludes exactly the id x.
Excludes(x) == call.op = "broadcast" /\ call.exclude = {x}

\* x is registered and its channel read OPEN at the broadcast in progress.
RegisteredOpen(x) ==
    /\ MapHas(connections, x)
    /\ call.readyState[ChannelOf(connections, x)] = OPEN

\* C19 (as claimed): the number of frames broadcast(msg, [x]) writes is
\* size() minus 1 if x is registered with an open channel, size() otherwise.
C19_FramesBySize ==
    \A x \in Ids :
        Excludes(x) =>
            Len(writes) = size(connections) - (IF RegisteredOpen(x) THEN 1 ELSE 0)

\* C19 (amended): the number of frames broadcast(msg, [x]) writes is the
\* number of registered connections whose channel is open, minus 1 if x is
\* registered with an open channel.
C19_FramesByOpen ==
    \A x \in Ids :
        Excludes(x) =>
            Len(writes) = Cardinality({k \in MapKeys(connections) : RegisteredOpen(k)})
                          - (IF RegisteredOpen(x) THEN 1 ELSE 0)

\* A broadcast excluding the first of two registered connections, whose
\* channel is open; the channel of the second is not and nothing is written.
C19_Witness ==
    /\ Excludes(1)
    /\ RegisteredOpen(1)
    /\ MapHas(connections, 2)
    /\ ~RegisteredOpen(2)
    /\ writes = <<>>

\* C14: the record addConnection(channel, metadata) returns carries that
\* channel and that metadata, and getConnection of its id returns that record
\* -- right after the call, and after every later call, a registered id keeps
\* its record until a removeConnection, a disconnect or a clear removes it.
C14_GetAfterAdd ==
    [][/\ (call'.op = "addConnection")
          => (/\ call'.ret.ws = call'.ws
              /\ call'.ret.metadata = call'.metadata
              /\ getConnection(connections', call'.ret.id) = {call'.ret})
       /\ \A k \in MapKeys(connections) :
            \/ getConnection(connections', k) = getConnection(connections, k)
            \/ /\ getConnection(connections', k) = {}
               /\ call'.op \in {"removeConnection", "disconnect", "clear"}
       /\ (call'.op = "getConnection" /\ MapHas(connections, call'.id))
          => (/\ call'.ret = {MapGet(connections, call'.id)}
              /\ \A c \in call'.ret : c.id = call'.id)]_vars

\* getConnection of the second connection, added with a metadata bag, after
\* the first one was removed.
C14_Witness ==
    /\ call.op = "getConnection"
    /\ adds = 2
    /\ removals = 1
    /\ \E c \in call.ret :
        /\ c.id = call.id
        /\ c.metadata = "meta"
        /\ c.id = 2

\* C15: changes the caller makes to a Map that getConnections() returned
\* never change the registry (so neither size() nor any getConnection), and
\* addConnection, removeConnection, disconnect and clear never change the
\* entries of a Map that was returned earlier; the Map holds, when it is
\* returned, the entries of the registry.
C15_IndependentCopy ==
    [][/\ (call'.op \in {"Map.set", "Map.delete"})
          => (/\ connections' = connections
              /\ size(connections') = size(connections)
              /\ \A k \in Ids :
                    getConnection(connections', k) = getConnection(connections, k))
       /\ (/\ call'.op \in {"addConnection", "removeConnection", "disconnect", "clear"}
           /\ snapshot /= <<>>)
          => (/\ snapshot' /= <<>>
              /\ EntriesOf(snapshot'[1], connections') = SnapshotEntries)
       /\ (call'.op = "getConnections")
          => EntriesOf(call'.ret, connections') = connections]_vars

\* The caller kept a Map of two connections and deleted one from it; the
\* other was then removed from the registry: the Map holds the one the
\* registry lost, the registry the one the Map lost.
C15_Witness ==
    /\ call.op = "removeConnection"
    /\ call.ret = TRUE
    /\ snapshot /= <<>>
    /\ Len(SnapshotEntries) = 1
    /\ MapHas(SnapshotEntries, call.id)
    /\ size(connections) = 1
    /\ ~MapHas(connections, call.id)

\* The step is the 'message' listener of ws running on the frame rawData.
Listened(ws, rawData) ==
    /\ event'.type = "message"
    /\ event'.ws = ws
    /\ event'.rawData = rawData
    /\ sockets[ws].phase = "listening"

\* C20: a frame that is not JSON, given to the 'message' listener, reaches
\* onError exactly once, for that connection and with the SyntaxError of
\* JSON.parse, and never onMessage; the listener calls no close() on the
\* channel, leaves the registry and the heartbeatTimers as they were and the
\* listeners installed; and a frame that is JSON, arriving on that connection
\* afterwards, is dispatched to onMessage with the parsed value.
C20_UndecodableFrame ==
    [][\A ws \in Channels, rawData \in RawDatas :
        Listened(ws, rawData) =>
            /\ JSONparse(rawData).threw
               => (/\ Len(handled') = 1
                   /\ handled'[1].handler = "onError"
                   /\ handled'[1].id = sockets[ws].connection.id
                   /\ handled'[1].arg = JSONparse(rawData).error
                   /\ closes' = <<>>
                   /\ sockets'[ws].alive
                   /\ sockets'[ws].phase = "listening"
                   /\ connections' = connections
                   /\ heartbeatTimers' = heartbeatTimers)
            /\ (sockets[ws].undecoded /\ ~JSONparse(rawData).threw)
               => (/\ handled' /= <<>>
                   /\ handled'[1].handler = "onMessage"
                   /\ handled'[1].id = sockets[ws].connection.id
                   /\ handled'[1].arg = JSONparse(rawData).value)]_vars

\* After a frame that was not JSON, a message of the same connection is
\* dispatched to onMessage; the connection is registered and its heartbeat armed.
C20_Witness ==
    /\ event.type = "message"
    /\ sockets[event.ws].undecoded
    /\ ~JSONparse(event.rawData).threw
    /\ Len(handled) = 1
    /\ handled[1].handler = "onMessage"
    /\ handled[1].arg = Notice
    /\ MapHas(connections, handled[1].id)
    /\ handled[1].id \in heartbeatTimers

(***************************************************************************)
(* Properties of the transport adapter.  A state in which `event` is not   *)
(* NoEvent is the state right after that event's callback ran.             *)
(***************************************************************************)
\* The connection id in the closure of the callbacks of ws.
IdOf(ws) == sockets[ws].connection.id

\* The calls of the handler h among the invocations.
CallsOf(invocations, h) == {i \in DOMAIN invocations : invocations[i].handler = h}

\* The parsed value is a JSON object with a type and a data field (every
\* type the clients of this model send is a string).
HasWireShape(value) == "type" \in DOMAIN value /\ "data" \in DOMAIN value

\* C21 (as claimed): a frame given to the 'message' listener that is not JSON,
\* or is JSON without the wire shape, reaches onError and never onMessage.
C21_ShapeChecked ==
    (/\ event.type = "message"
     /\ sockets[event.ws].phase = "listening"
     /\ \/ JSONparse(event.rawData).threw
        \/ ~HasWireShape(JSONparse(event.rawData).value))
    => (/\ CallsOf(handled, "onError") /= {}
        /\ CallsOf(handled, "onMessage") = {})

\* C22: when onMessage throws or rejects for a frame, onError is called
\* exactly once, after it, for the same connection and with that error; the
\* registry is what it was, the connection is still in it and its listeners
\* are still installed; and a later frame that is JSON is still given to
\* onMessage.
C22_OnMessageThrows ==
    [][\A ws \in Channels, rawData \in RawDatas :
        Listened(ws, rawData) =>
            /\ (/\ CallsOf(handled', "onMessage") /= {}
                /\ \E i \in CallsOf(handled', "onMessage") : handled'[i].threw)
               => (/\ Len(handled') = 2
                   /\ handled'[1].handler = "onMessage"
                   /\ handled'[2].handler = "onError"
                   /\ handled'[2].id = handled'[1].id
                   /\ handled'[2].id = IdOf(ws)
                   /\ handled'[2].arg = "HandlerError"
                   /\ connections' = connections
                   /\ MapHas(connections', IdOf(ws))
                   /\ sockets'[ws].phase = "listening"
                   /\ sockets'[ws].alive)
            /\ (sockets[ws].messageFailed /\ ~JSONparse(rawData).threw)
               => (/\ handled' /= <<>>
                   /\ handled'[1].handler = "onMessage"
                   /\ handled'[1].id = IdOf(ws)
                   /\ handled'[1].arg = JSONparse(rawData).value)]_vars

\* After an onMessage of the connection threw, a later message is given to
\* onMessage, which returns; the connection is registered.
C22_Witness ==
    /\ event.type = "message"
    /\ sockets[event.ws].messageFailed
    /\ Len(handled) = 1
    /\ handled[1].handler = "onMessage"
    /\ ~handled[1].threw
    /\ handled[1].arg = Notice
    /\ handled[1].registered

\* C23: an exception of onConnect or onDisconnect does not reject the
\* adapter's callback and does not end the connection's lifecycle: after a
\* failing onConnect the callback resumes, arms the heartbeat and installs
\* the listeners; a failing onDisconnect was called with the connection
\* already removed and its heartbeat cancelled, and they stay so.
C23_LifecycleHandlersCaught ==
    [][\A ws \in Channels :
        /\ (/\ event'.type = "verified"
            /\ event'.ws = ws
            /\ \E i \in CallsOf(handled', "onConnect") : handled'[i].threw)
           => (/\ ~event'.rejected
               /\ sockets'[ws].phase = "onConnect")
        /\ (/\ event'.type = "resumed"
            /\ event'.ws = ws
            /\ event'.failed)
           => (/\ ~event'.rejected
               /\ IdOf(ws) \in heartbeatTimers'
               /\ sockets'[ws].phase = "listening")
        /\ (/\ event'.type = "close"
            /\ event'.ws = ws
            /\ \E i \in CallsOf(handled', "onDisconnect") : handled'[i].threw)
           => (/\ ~event'.rejected
               /\ \A i \in CallsOf(handled', "onDisconnect") :
                    ~handled'[i].registered /\ ~handled'[i].timed
               /\ ~MapHas(connections', IdOf(ws))
               /\ IdOf(ws) \notin heartbeatTimers')]_vars

\* The 'connection' callback has resumed after an onConnect that failed: the
\* heartbeat is armed, the listeners are installed, the connection registered.
C23_Witness ==
    /\ event.type = "resumed"
    /\ event.failed
    /\ sockets[event.ws].phase = "listening"
    /\ IdOf(event.ws) \in heartbeatTimers
    /\ MapHas(connections, IdOf(event.ws))

\* C24 (as claimed): an exception of onError never leaves the adapter's
\* callback as an unhandled rejection.
C24_OnErrorCaught ==
    (\E i \in CallsOf(handled, "onError") : handled[i].threw) => ~event.rejected

\* C25: when verifyClient comes to false or to a rejected promise, the upgrade
\* is refused: no addConnection (no id drawn, the registry as it was), no
\* handler called, no heartbeat timer created -- then and ever after for
\* that request.
C25_VerificationRejected ==
    [][\A ws \in Channels :
        /\ (/\ event'.type = "verified"
            /\ event'.ws = ws
            /\ event'.verdict \in {"false", "rejects"})
           => (/\ sockets'[ws].phase = "refused"
               /\ connections' = connections
               /\ issued' = issued
               /\ heartbeatTimers' = heartbeatTimers
               /\ handled' = <<>>
               /\ event'.did = <<>>)
        /\ sockets[ws].phase = "refused"
           => (/\ sockets'[ws] = sockets[ws]
               /\ ws \notin ChannelsOf(connections', Ids))]_vars

\* verifyClient's promise rejected for one request while another connection
\* is registered.
C25_Witness ==
    /\ event.type = "verified"
    /\ event.verdict = "rejects"
    /\ sockets[event.ws].phase = "refused"
    /\ size(connections) = 1
    /\ event.ws \notin ChannelsOf(connections, Ids)

\* The positions of the call `name` among the calls a callback made.
Positions(did, name) == {i \in DOMAIN did : did[i] = name}

\* C26: the 'close' listener cancels the heartbeat timer (if there is one),
\* then calls removeConnection, then onDisconnect, once each; onDisconnect
\* is called with the connection out of the registry and without a timer.
C26_CloseOrder ==
    [][\A ws \in Channels :
        (/\ event'.type = "close"
         /\ event'.ws = ws
         /\ sockets[ws].phase = "listening")
        => (/\ Cardinality(Positions(event'.did, "removeConnection")) = 1
            /\ Cardinality(Positions(event'.did, "onDisconnect")) = 1
            /\ Cardinality(Positions(event'.did, "clearInterval")) =
                    IF IdOf(ws) \in heartbeatTimers THEN 1 ELSE 0
            /\ \A c \in Positions(event'.did, "clearInterval"),
                  r \in Positions(event'.did, "removeConnection") : c < r
            /\ \A r \in Positions(event'.did, "removeConnection"),
                  d \in Positions(event'.did, "onDisconnect") : r < d
            /\ Len(handled') = 1
            /\ handled'[1].handler = "onDisconnect"
            /\ handled'[1].id = IdOf(ws)
            /\ ~handled'[1].registered
            /\ ~handled'[1].timed)]_vars

\* A close handled for a connection whose heartbeat was armed.
C26_Witness ==
    /\ event.type = "close"
    /\ event.did = <<"clearInterval", "removeConnection", "onDisconnect">>
    /\ Len(handled) = 1
    /\ handled[1].handler = "onDisconnect"
    /\ ~handled[1].registered
    /\ ~handled[1].timed

\* C27 (as claimed): once the transport of a connection has signalled close
\* and the callbacks of its ws have run, the connection is out of the registry.
C27_ClosedIsRemoved ==
    \A ws \in Channels :
        (/\ sockets[ws].phase = "listening"
         /\ ~sockets[ws].alive
         /\ event.type = "none")
        => ~MapHas(connections, IdOf(ws))

\* C28 (as claimed): every id with a heartbeat timer is in the registry.
C28_TimersRegistered ==
    \A id \in heartbeatTimers : MapHas(connections, id)

\* C29 (as claimed): after the close of a connection has been signalled, no
\* heartbeat timer exists for it.
C29_NoTimerAfterClose ==
    \A ws \in Channels :
        (/\ sockets[ws].phase \in {"onConnect", "listening"}
         /\ ~sockets[ws].alive)
        => IdOf(ws) \notin heartbeatTimers

C33_ConnectFirst ==
    [][/\ (event'.type = "verified" /\ verifyClientWrapper(event'.verdict))
          => (/\ event'.did = <<"addConnection", "onConnect">>
              /\ Len(handled') = 1
              /\ handled'[1].handler = "onConnect"
              /\ handled'[1].id = sockets'[event'.ws].connection.id
              /\ handled'[1].registered
              /\ sockets'[event'.ws].phase = "onConnect")
       /\ \A ws \in Channels :
            sockets[ws].phase = "onConnect"
            => \A i \in DOMAIN handled' : handled'[i].id /= IdOf(ws)]_vars

\* A frame arrived while onConnect was pending and no handler was invoked.
C33_Witness ==
    /\ event.type = "message"
    /\ sockets[event.ws].phase = "onConnect"
    /\ MapHas(connections, IdOf(event.ws))
    /\ handled = <<>>

\* C34 (as claimed): every frame received on a registered connection is
\* given to onMessage or to onError, also while onConnect is pending.
C34_FramesDispatched ==
    event.type = "message"
    => (/\ handled /= <<>>
        /\ handled[1].handler \in {"onMessage", "onError"}
        /\ handled[1].id = IdOf(event.ws)
        /\ \A i \in DOMAIN handled :
              i > 1 => (handled[i].handler = "onError" /\ handled[1].threw))

\* C35: the frames written by one broadcast call are the same frame, with
\* the same timestamp, whether or not the message carried one.
C35_OneFrame ==
    call.op = "broadcast"
    => \A i, j \in DOMAIN writes : writes[i].payload = writes[j].payload

\* A broadcast of a message without a timestamp wrote to two channels.
C35_Witness ==
    /\ call.op = "broadcast"
    /\ "timestamp" \notin DOMAIN call.message
    /\ Len(writes) = 2
    /\ writes[1].ws /= writes[2].ws
    /\ FrameField(writes[2].payload, "timestamp") = now

\* C31 (as claimed): once the teardown has returned, the registry is empty
\* and no heartbeat timer exists, and this stays so whatever the connections
\* accepted before the teardown do afterwards.
C31_TornDown ==
    wss = "closed" => (connections = <<>> /\ heartbeatTimers = {})

\* C32: the onMessage invocations of a connection begin in the order of the
\* frames its 'message' listener was given, one for each frame that is JSON
\* and with that frame's value, however many earlier invocations are
\* still pending.
C32_InOrder ==
    \A ws \in Channels :
        LET decoded == SelectSeq(order[ws].received,
                                 LAMBDA rawData : ~JSONparse(rawData).threw)
        IN  order[ws].begun = [i \in DOMAIN decoded |-> JSONparse(decoded[i]).value]

\* An onMessage began for a second, different frame while the invocation for
\* the first was still pending.
C32_Witness ==
    \E ws \in Channels :
        /\ order[ws].pending > 0
        /\ event.type = "message"
        /\ event.ws = ws
        /\ Len(order[ws].begun) = 2
        /\ order[ws].begun[1] /= order[ws].begun[2]
        /\ handled[1].arg = order[ws].begun[2]

\* C36 (as claimed): the store makes at most reconnectAttempts reconnection
\* attempts without a successful open in between.
C36_AttemptsBounded ==
    usage.attempts <= reconnectAttempts

\* C37 (as claimed): after disconnect() and until connect() is called again,
\* the store holds no socket, no reconnection is scheduled, and its value has
\* connected = false and reconnecting = false.
C37_StaysDisconnected ==
    usage.disconnect
    => (/\ client.ws = null
        /\ browser.timeouts = {}
        /\ ~store.connected
        /\ ~store.reconnecting)

\* What the handler's callback did in this step is what `out` says.
Did(out) ==
    /\ connections' = out.connections
    /\ heartbeatTimers' = out.heartbeatTimers
    /\ handled' = out.handled
    /\ closes' = out.closes
    /\ event'.did = out.did
    /\ event'.rejected = out.rejected

\* The handlers that threw in this step, the channels whose close() threw.
Threw == {handled'[i].handler : i \in {j \in DOMAIN handled' : handled'[j].threw}}
CloseThrew == {closes'[i].id : i \in {j \in DOMAIN closes' : closes'[j].threw}}

\* C38: on the configured path, whatever the production handler does on a
\* transport event (upgrade, verification, frame, error, close, heartbeat
\* tick, teardown) the development plugin's callback does too, from the same
\* registry and timers and with the same handlers: the same registry and
\* timer operations, the same handler invocations, the same close() calls.
C38_PluginAsHandler ==
    [][/\ (event'.type = "upgrade" /\ event'.matches)
          => sockets'[event'.ws].phase = pluginUpgrade(TRUE)
       /\ event'.type = "verified"
          => /\ pluginVerifyClient(event'.verdict) = verifyClientWrapper(event'.verdict)
             /\ pluginVerifyClient(event'.verdict)
                => Did(pluginConnection(connections, heartbeatTimers, event'.ws,
                                        sockets'[event'.ws].connection.id, Threw))
       /\ event'.type = "resumed"
          => Did(pluginResumed(connections, heartbeatTimers,
                               sockets[event'.ws].connection, event'.failed))
       /\ (event'.type = "message" /\ sockets[event'.ws].phase = "listening")
          => Did(pluginMessage(connections, heartbeatTimers,
                               sockets[event'.ws].connection, event'.rawData, Threw))
       /\ (event'.type = "error" /\ sockets[event'.ws].phase = "listening")
          => Did(pluginError(connections, heartbeatTimers,
                             sockets[event'.ws].connection, Threw))
       /\ (event'.type = "close" /\ sockets[event'.ws].phase = "listening")
          => Did(pluginClose(connections, heartbeatTimers,
                             sockets[event'.ws].connection, Threw))
       /\ event'.type = "heartbeat"
          => Did(pluginHeartbeat(connections, heartbeatTimers,
                                 sockets[event'.ws].connection, event'.readyState))
       /\ event'.type = "cleanup"
          => Did(closeBundle(connections, heartbeatTimers, CloseThrew))]_vars

\* A teardown that closed the channel of a registered connection and
\* cancelled its heartbeat.
C38_Witness ==
    /\ event.type = "cleanup"
    /\ Len(closes) = 1
    /\ event.did = <<"clearInterval", "heartbeatTimers.clear", "manager.clear",
                     "wss.close">>
    /\ connections = <<>>

=============================================================================
